---- MODULE Spec2Model ----
(***************************************************************************)
(* A model of the matrix-wysiwyg composer:                                 *)
(*   crates/wysiwyg/src/owned_dom.rs       the Sink that builds the tree   *)
(*                                         and the Display serializer      *)
(*   crates/wysiwyg/src/composer_model.rs  the edit engine                 *)
(*   bindings/wysiwyg-ffi/src/ffi_composer_model.rs  the locked wrapper    *)
(*                                                                         *)
(* Texts are sequences of numbers.  A Rust String is a sequence of Unicode *)
(* scalar values, a Vec<u16> is a sequence of UTF-16 code units; the two   *)
(* are converted by from_utf16 / encode_utf16 below.  The alphabet holds   *)
(* two letters and one astral character (a surrogate pair in UTF-16).  Of  *)
(* the HTML grammar of the external parser the model knows character data  *)
(* and well-nested tags without attributes; markup occurs only in the      *)
(* texts of SpecStructured.                                                *)
(*                                                                         *)
(* Five specifications share the variables:                                *)
(*   Spec            the edit engine, one action per command               *)
(*   SpecStructured  the edit engine on texts with a paragraph element     *)
(*   SpecFfi         host threads calling the locked wrapper               *)
(*   SpecSink        the tree builder calling the Sink                     *)
(*   SpecDisplay     the serializer on trees with every kind of node       *)
(***************************************************************************)
EXTENDS Integers, Sequences, FiniteSets, TLC

VARIABLES
    dom,        \* ComposerModel.dom: the owned tree
    rendered,   \* ComposerModel.rendered: Option<Vec<u16>>, the cached text
    start,      \* ComposerModel.start
    end,        \* ComposerModel.end
    last,       \* history: the last command, its arguments, the model before
                \* it and what it returned
    locked,     \* ffi ComposerModel.inner: the Mutex is held
    poisoned,   \* the Mutex is poisoned (a holder panicked)
    pc,         \* per host thread: where it is inside its command
    call,       \* per host thread: the command it is running
    frame,      \* per host thread: the locals (s, e) of replace_text
    ret,        \* per host thread: what its last command returned
    lin,        \* the model after the commands taken one at a time, in the
                \* order in which they took the lock
    linRet,     \* per host thread: what its command returns in that order
    curSink,    \* a Sink under construction: the arena of nodes, the
                \* document handle, errors, quirks mode, and whether a
                \* callback has panicked
    sinkLast,   \* history: the last callback, its arguments, the Sink before
                \* it and, for finish, what it handed out
    reported    \* history: the messages the tree builder has handed to
                \* parse_error, in the order of the calls

coreVars == <<dom, rendered, start, end>>
ffiVars == <<locked, poisoned, pc, call, frame, ret, lin, linRet>>
sinkVars == <<curSink, sinkLast, reported>>
vars == <<dom, rendered, start, end, last, locked, poisoned, pc, call, frame,
          ret, lin, linRet, curSink, sinkLast, reported>>

\* Longest text (in code units) a model is constructed from.
MaxLen == 2
\* Largest offset handed to from() and select(); beyond MaxLen on purpose.
MaxLoc == 3
\* Largest bound handed to replace_text_in().
MaxIn == 1
\* Most nodes in the arena of a Sink, the document included.
MaxNodes == 4
\* Most parse errors reported to one Sink.
MaxErrors == 2
\* Most nodes, besides the document and a doctype, of a tree serialized.
MaxOutline == 3
\* Longest text (in code units) of a Text node the callbacks build.
MaxText == 2
\* Host threads sharing one ffi ComposerModel.
NumThreads == 2

(***************************************************************************)
(* Strings and UTF-16                                                      *)
(***************************************************************************)

\* The characters of an initial text: 'a' and U+1F4A9 (UTF-16: D83D DCA9);
\* typed text brings 'b'.
Chars == {97, 128169}

IsHighSurrogate(u) == u >= 55296 /\ u <= 56319
IsLowSurrogate(u) == u >= 56320 /\ u <= 57343
IsSurrogate(u) == IsHighSurrogate(u) \/ IsLowSurrogate(u)

\* str::encode_utf16: a scalar value above the BMP becomes a surrogate pair.
RECURSIVE encode_utf16(_)
encode_utf16(s) ==
    IF s = <<>> THEN <<>>
    ELSE LET c == Head(s)
             units == IF c < 65536 THEN <<c>>
                      ELSE <<55296 + ((c - 65536) \div 1024),
                             56320 + ((c - 65536) % 1024)>>
         IN units \o encode_utf16(Tail(s))

\* String::from_utf16: Err on an unpaired surrogate.
RECURSIVE from_utf16(_)
from_utf16(v) ==
    IF v = <<>> THEN [ok |-> TRUE, value |-> <<>>]
    ELSE LET u == Head(v) IN
         IF ~IsSurrogate(u)
         THEN LET r == from_utf16(Tail(v))
              IN [ok |-> r.ok, value |-> <<u>> \o r.value]
         ELSE IF IsHighSurrogate(u) /\ Len(v) >= 2 /\ IsLowSurrogate(v[2])
         THEN LET r == from_utf16(Tail(Tail(v)))
                  c == 65536 + (u - 55296) * 1024 + (v[2] - 56320)
              IN [ok |-> r.ok, value |-> <<c>> \o r.value]
         ELSE [ok |-> FALSE, value |-> <<>>]

\* Every String over Chars whose UTF-16 form has at most n code units.
Strings(n) ==
    {s \in UNION {[1..k -> Chars] : k \in 0..n} : Len(encode_utf16(s)) <= n}

(***************************************************************************)
(* owned_dom.rs: nodes, the construction arena, the Sink callbacks         *)
(***************************************************************************)

\* NodeEnum; every variant carries the same fields so that nodes compare.
Document == [kind |-> "Document", name |-> <<>>, text |-> <<>>]
Text(t) == [kind |-> "Text", name |-> <<>>, text |-> t]
Element(n) == [kind |-> "Element", name |-> n, text |-> <<>>]
Comment(t) == [kind |-> "Comment", name |-> <<>>, text |-> t]
\* Doctype(name, public id, system id), both ids empty.
Doctype(n) == [kind |-> "Doctype", name |-> n, text |-> <<>>]

\* Local names of the elements the parser inserts: "html", "head", "body".
html_name == <<104, 116, 109, 108>>
head_name == <<104, 101, 97, 100>>
body_name == <<98, 111, 100, 121>>

\* Handle: an index into Sink.nodes; 0 is the null handle.
NullHandle == 0

SquishyNode_new(node) ==
    [node |-> node, parent |-> NullHandle, children |-> <<>>]

\* Sink::new_node: the new node's handle is Len(nodes) of the result.
new_node(sink, node) ==
    [sink EXCEPT !.nodes = Append(@, SquishyNode_new(node))]

LastHandle(sink) == Len(sink.nodes)

\* Sink::default
Sink_default ==
    new_node([nodes |-> <<>>, document |-> 1, errors |-> <<>>,
              quirks_mode |-> "NoQuirks", panicked |-> FALSE], Document)

\* A parse_error that keeps only the message reported last.
parse_error_latest(sink, msg) == [sink EXCEPT !.errors = <<msg>>]

\* Sink::parse_error
parse_error(sink, msg) == [sink EXCEPT !.errors = Append(@, msg)]

set_quirks_mode(sink, mode) == [sink EXCEPT !.quirks_mode = mode]

create_element(sink, name) == new_node(sink, Element(name))

create_comment(sink, text) == new_node(sink, Comment(text))

\* fn append(new_parent, child): push, assert the child had no parent, link.
append(sink, new_parent, child) ==
    IF sink.nodes[child].parent # NullHandle
    THEN [sink EXCEPT !.nodes[new_parent].children = Append(@, child),
                      !.panicked = TRUE]
    ELSE [sink EXCEPT !.nodes[new_parent].children = Append(@, child),
                      !.nodes[child].parent = new_parent]

\* Sink::append_doctype_to_document
append_doctype_to_document(sink, name) ==
    LET s1 == new_node(sink, Doctype(name))
    IN append(s1, s1.document, LastHandle(s1))

\* fn get_parent_and_index: None for a node without a parent, else the parent
\* and the index (from 0) of the first occurrence of the child in the
\* parent's children; panics when the child is not among them.
get_parent_and_index(sink, child) ==
    LET parent == sink.nodes[child].parent
        ch == IF parent = NullHandle THEN <<>> ELSE sink.nodes[parent].children
        hits == {i \in 1..Len(ch) : ch[i] = child}
    IN IF parent = NullHandle
       THEN [some |-> FALSE, panicked |-> FALSE, parent |-> NullHandle, i |-> 0]
       ELSE IF hits = {}
       THEN [some |-> FALSE, panicked |-> TRUE, parent |-> parent, i |-> 0]
       ELSE [some |-> TRUE, panicked |-> FALSE, parent |-> parent,
             i |-> (CHOOSE i \in hits : \A j \in hits : i <= j) - 1]

\* Vec::remove(i) and Vec::insert(i, x), i counted from 0.
Vec_remove(v, i) == SubSeq(v, 1, i) \o SubSeq(v, i + 2, Len(v))
Vec_insert(v, i, x) == SubSeq(v, 1, i) \o <<x>> \o SubSeq(v, i + 1, Len(v))

\* An unparent that clears the parent link but leaves the parent's list.
unparent_link_only(sink, target) ==
    LET pi == get_parent_and_index(sink, target)
    IN IF pi.panicked THEN [sink EXCEPT !.panicked = TRUE]
       ELSE IF ~pi.some THEN sink
       ELSE [sink EXCEPT !.nodes[target].parent = NullHandle]

\* Sink::unparent
unparent(sink, target) ==
    LET pi == get_parent_and_index(sink, target)
    IN IF pi.panicked THEN [sink EXCEPT !.panicked = TRUE]
       ELSE IF ~pi.some THEN sink
       ELSE [sink EXCEPT !.nodes[pi.parent].children = Vec_remove(@, pi.i),
                         !.nodes[target].parent = NullHandle]

\* Sink::remove_from_parent
remove_from_parent(sink, target) == unparent(sink, target)

\* Sink::reparent_children: the children move to the end of new_parent's
\* list; their parent links are not touched.
reparent_children(sink, node, new_parent) ==
    [sink EXCEPT !.nodes[new_parent].children = @ \o sink.nodes[node].children,
                 !.nodes[node].children = <<>>]

\* fn append_to_existing_text: TRUE when prev is a Text node.
append_to_existing_text_ok(sink, prev) == sink.nodes[prev].node.kind = "Text"

append_to_existing_text(sink, prev, text) ==
    IF append_to_existing_text_ok(sink, prev)
    THEN [sink EXCEPT !.nodes[prev].node.text = @ \o text]
    ELSE sink

\* Sink::append with AppendNode(node).
Sink_append_node(sink, parent, node) == append(sink, parent, node)

\* Sink::append with AppendText(text): coalesce with a last Text child.
Sink_append_text(sink, parent, text) ==
    LET ch == sink.nodes[parent].children IN
    IF ch # <<>> /\ append_to_existing_text_ok(sink, ch[Len(ch)])
    THEN append_to_existing_text(sink, ch[Len(ch)], text)
    ELSE LET s1 == new_node(sink, Text(text))
         IN append(s1, parent, LastHandle(s1))

\* The tail of Sink::append_before_sibling: a child that has a parent is
\* unparented, then linked and inserted at the index found before that.
insert_before(sink, parent, i, child) ==
    LET s1 == IF sink.nodes[child].parent # NullHandle
              THEN unparent(sink, child)
              ELSE sink
    IN IF s1.panicked THEN s1
       ELSE [s1 EXCEPT !.nodes[child].parent = parent,
                       !.nodes[parent].children = Vec_insert(@, i, child)]

\* Sink::append_before_sibling with AppendNode(node); a sibling without a
\* parent fails the expect("No parent found!").
Sink_append_before_sibling_node(sink, sibling, node) ==
    LET pi == get_parent_and_index(sink, sibling)
    IN IF ~pi.some THEN [sink EXCEPT !.panicked = TRUE]
       ELSE insert_before(sink, pi.parent, pi.i, node)

\* Sink::append_before_sibling with AppendText(text): coalesce with a Text
\* node before the insertion point, else insert a new Text node.
Sink_append_before_sibling_text(sink, sibling, text) ==
    LET pi == get_parent_and_index(sink, sibling)
    IN IF ~pi.some THEN [sink EXCEPT !.panicked = TRUE]
       ELSE IF pi.i > 0
               /\ append_to_existing_text_ok(
                      sink, sink.nodes[pi.parent].children[pi.i])
       THEN append_to_existing_text(
                sink, sink.nodes[pi.parent].children[pi.i], text)
       ELSE LET s1 == new_node(sink, Text(text))
            IN insert_before(s1, pi.parent, pi.i, LastHandle(s1))

\* A walk that stops at the children of the node it starts from.
walk_shallow(sink, node) ==
    {node} \cup {sink.nodes[node].children[i] :
                    i \in 1..Len(sink.nodes[node].children)}

\* walk in Sink::finish: the handles reached from node through children.
RECURSIVE walk(_, _)
walk(sink, node) ==
    {node} \cup UNION {walk(sink, sink.nodes[node].children[i]) :
                         i \in 1..Len(sink.nodes[node].children)}

\* The handles of the owned tree under h, in document order: every child in
\* a children list becomes a Box the parent owns.
RECURSIVE OwnedHandles(_, _)
RECURSIVE OwnedHandlesOf(_, _)
OwnedHandlesOf(sink, children) ==
    IF children = <<>> THEN <<>>
    ELSE OwnedHandles(sink, Head(children))
         \o OwnedHandlesOf(sink, Tail(children))

OwnedHandles(sink, h) == <<h>> \o OwnedHandlesOf(sink, sink.nodes[h].children)

\* The memory side of Sink::finish: the nodes forgotten (kept for the tree),
\* the nodes dropped with the arena, and the boxes the tree owns.
finish_memory(sink) ==
    LET live == walk(sink, sink.document)
    IN [forgotten |-> {h \in 1..Len(sink.nodes) : h \in live},
        dropped |-> {h \in 1..Len(sink.nodes) : h \notin live},
        owned |-> OwnedHandles(sink, sink.document)]

\* The owned Node finish() hands out.  The SquishyNode is transmuted in
\* place: its three fields stay where they are, so the parent handle is
\* still there as the private usize _parent_not_accessible.
RECURSIVE Owned(_, _)
Owned(sink, h) ==
    LET ch == sink.nodes[h].children
    IN [node |-> sink.nodes[h].node,
        parent_not_accessible |-> sink.nodes[h].parent,
        children |-> [i \in 1..Len(ch) |-> Owned(sink, ch[i])]]

\* Sink::finish
finish(sink) ==
    [document |-> Owned(sink, sink.document),
     errors |-> sink.errors,
     quirks_mode |-> sink.quirks_mode]

(***************************************************************************)
(* owned_dom.rs: impl Display for OwnedDom                                 *)
(***************************************************************************)

\* An excluded_tag that knows "html" only.
excluded_tag_html_only(local) == local = html_name

excluded_tag(local) == local \in {html_name, head_name, body_name}

RECURSIVE imp(_)
RECURSIVE imp_children(_)
imp_children(children) ==
    IF children = <<>> THEN <<>>
    ELSE imp(Head(children)) \o imp_children(Tail(children))

imp(parent) ==
    LET n == parent.node
        open == IF n.kind = "Text" THEN n.text
                ELSE IF n.kind = "Element" /\ ~excluded_tag(n.name)
                     THEN <<60>> \o n.name \o <<62>>
                     ELSE <<>>
        close == IF n.kind = "Element" /\ ~excluded_tag(n.name)
                 THEN <<60, 47>> \o n.name \o <<62>>
                 ELSE <<>>
    IN open \o imp_children(parent.children) \o close

to_string(d) == imp(d.document)

(***************************************************************************)
(* composer_model.rs                                                       *)
(***************************************************************************)

\* html5ever's tokenizer, for character data and tags without attributes:
\* "<" name ">" is a start tag, "</" name ">" an end tag, and everything up
\* to the next "<" is character data.
IsLetters(v) == v # <<>> /\ \A i \in 1..Len(v) : v[i] \in 97..122

\* The index of the first x in v at or after index k, or Len(v) + 1.
RECURSIVE IndexFrom(_, _, _)
IndexFrom(v, x, k) ==
    IF k > Len(v) \/ v[k] = x THEN k ELSE IndexFrom(v, x, k + 1)

Characters(input, run) ==
    [kind |-> "Characters", name |-> SubSeq(input, 1, run),
     rest |-> SubSeq(input, run + 1, Len(input))]

Tag(input, j, inner) ==
    IF IsLetters(inner)
    THEN [kind |-> "StartTag", name |-> inner,
          rest |-> SubSeq(input, j + 1, Len(input))]
    ELSE IF inner # <<>> /\ inner[1] = 47 /\ IsLetters(Tail(inner))
    THEN [kind |-> "EndTag", name |-> Tail(inner),
          rest |-> SubSeq(input, j + 1, Len(input))]
    ELSE Characters(input, IndexFrom(input, 60, 2) - 1)

next_token(input) ==
    IF input[1] # 60
    THEN Characters(input, IndexFrom(input, 60, 2) - 1)
    ELSE IF IndexFrom(input, 62, 2) > Len(input)
    THEN Characters(input, IndexFrom(input, 60, 2) - 1)
    ELSE Tag(input, IndexFrom(input, 62, 2),
             SubSeq(input, 2, IndexFrom(input, 62, 2) - 1))

\* html5ever's tree builder in the body, for well-nested input: a start tag
\* inserts an element under the current node and opens it, an end tag closes
\* the open element of that name (a stray one is a parse error), character
\* data is appended to the current node.  open is the stack of open
\* elements, body first.
RECURSIVE tree_builder(_, _, _)

\* The open elements once the innermost one called name is closed; open
\* itself when there is none.
RECURSIVE close_element(_, _, _)
close_element(sink, open, name) ==
    IF Len(open) <= 1 THEN open
    ELSE IF sink.nodes[open[Len(open)]].node.name = name
    THEN SubSeq(open, 1, Len(open) - 1)
    ELSE LET below == close_element(sink, SubSeq(open, 1, Len(open) - 1), name)
         IN IF Len(below) = Len(open) - 1 THEN open ELSE below

process_token(sink, open, tok) ==
    CASE tok.kind = "StartTag" ->
            tree_builder(
                Sink_append_node(create_element(sink, tok.name),
                                 open[Len(open)], Len(sink.nodes) + 1),
                Append(open, Len(sink.nodes) + 1), tok.rest)
      [] tok.kind = "EndTag" ->
            IF close_element(sink, open, tok.name) = open
            THEN tree_builder(parse_error(sink, "Unexpected token"), open,
                              tok.rest)
            ELSE tree_builder(sink, close_element(sink, open, tok.name),
                              tok.rest)
      [] tok.kind = "Characters" ->
            tree_builder(Sink_append_text(sink, open[Len(open)], tok.name),
                         open, tok.rest)

tree_builder(sink, open, input) ==
    IF input = <<>> THEN sink
    ELSE process_token(sink, open, next_token(input))

\* html5ever's parse_document: no doctype (a parse error, quirks mode), then
\* html, head and body, then the content in body.
parse_document(input) ==
    LET s0 == set_quirks_mode(parse_error(Sink_default, "Unexpected token"),
                              "Quirks")
        s1 == create_element(s0, html_name)
        hHtml == LastHandle(s1)
        s2 == Sink_append_node(s1, s1.document, hHtml)
        s3 == create_element(s2, head_name)
        s4 == Sink_append_node(s3, hHtml, LastHandle(s3))
        s5 == create_element(s4, body_name)
        hBody == LastHandle(s5)
        s6 == Sink_append_node(s5, hHtml, hBody)
        s7 == tree_builder(s6, <<hBody>>, input)
    IN finish(s7)

\* parse_utf16: from_utf16(..).unwrap() panics on an unpaired surrogate.
parse_utf16(html16) ==
    LET str == from_utf16(html16)
    IN IF str.ok THEN [ok |-> TRUE, dom |-> parse_document(str.value)]
       ELSE [ok |-> FALSE, dom |-> parse_document(<<>>)]

None == [some |-> FALSE, value |-> <<>>]
Some(v) == [some |-> TRUE, value |-> v]

\* The ComposerModel as a value.
Model == [dom |-> dom, rendered |-> rendered, start |-> start, end |-> end]

\* A from that stores the selection in document order.
from_ordered(html16, s, e) ==
    [dom |-> parse_utf16(html16).dom, rendered |-> None,
     start |-> IF s > e THEN e ELSE s, end |-> IF s > e THEN s ELSE e]

\* ComposerModel::from (ComposerModel::new is from(<<>>, 0, 0)); html16 is
\* well-formed UTF-16.
from(html16, s, e) ==
    [dom |-> parse_utf16(html16).dom, rendered |-> None,
     start |-> s, end |-> e]

\* A select that normalizes what it stores.
select_ordered(m, s, e) ==
    [m EXCEPT !.start = IF s > e THEN e ELSE s, !.end = IF s > e THEN s ELSE e]

\* ComposerModel::select
select(m, s, e) == [m EXCEPT !.start = s, !.end = e]

\* An html() that takes the cached text out of the cache when it returns it.
html_take(m) ==
    IF m.rendered.some
    THEN [ret |-> m.rendered.value, m |-> [m EXCEPT !.rendered = None]]
    ELSE LET r == encode_utf16(to_string(m.dom))
         IN [ret |-> r, m |-> [m EXCEPT !.rendered = Some(r)]]

\* ComposerModel::html: the cached text when there is one, else the
\* serialization of the tree, which is then cached.
html(m) ==
    IF m.rendered.some
    THEN [ret |-> m.rendered.value, m |-> m]
    ELSE LET r == encode_utf16(to_string(m.dom))
         IN [ret |-> r, m |-> [m EXCEPT !.rendered = Some(r)]]

\* usize::clamp(lo, hi)
clamp(x, lo, hi) == IF x < lo THEN lo ELSE IF x > hi THEN hi ELSE x

\* A safe_selection that clamps but forgets to reorder.
safe_selection_unordered(m) ==
    LET h == html(m)
        html_len == Len(h.ret)
    IN [s |-> clamp(m.start, 0, html_len), e |-> clamp(m.end, 0, html_len),
        m |-> h.m]

\* ComposerModel::safe_selection
safe_selection(m) ==
    LET h == html(m)
        html_len == Len(h.ret)
        s == clamp(m.start, 0, html_len)
        e == clamp(m.end, 0, html_len)
    IN IF s > e THEN [s |-> e, e |-> s, m |-> h.m]
       ELSE [s |-> s, e |-> e, m |-> h.m]

Keep == [kind |-> "Keep", html |-> <<>>, start |-> 0, end |-> 0]
ReplaceAll(t, s, e) == [kind |-> "ReplaceAll", html |-> t, start |-> s, end |-> e]
\* What a panicking or unit-returning call leaves in place of an update.
NoUpdate == [kind |-> "None", html |-> <<>>, start |-> 0, end |-> 0]

\* ComposerModel::create_update_replace_all
create_update_replace_all(m) ==
    LET h == html(m)
    IN [m |-> h.m, update |-> ReplaceAll(h.ret, h.m.start, h.m.end), ok |-> TRUE]

\* The splice of replace_text: html[..s] ++ new_text ++ html[e..]
splice(h, s, e, new_text) ==
    SubSeq(h, 1, s) \o new_text \o SubSeq(h, e + 1, Len(h))

\* ComposerModel::replace_text
replace_text(m, new_text) ==
    LET sel == safe_selection(m)
        h == html(sel.m)
        new_html == splice(h.ret, sel.s, sel.e, new_text)
        p == parse_utf16(new_html)
    IN IF ~p.ok
       THEN [m |-> h.m, update |-> NoUpdate, ok |-> FALSE]
       ELSE create_update_replace_all(
                [h.m EXCEPT !.dom = p.dom,
                            !.start = sel.s + Len(new_text),
                            !.end = sel.s + Len(new_text)])

\* Location's `-= 1`, floored at 0, and `+= 1`.
Location_sub(l, n) == IF l - n < 0 THEN 0 ELSE l - n
Location_add(l, n) == l + n

\* ComposerModel::backspace
backspace(m) ==
    replace_text(IF m.start = m.end
                 THEN [m EXCEPT !.start = Location_sub(m.start, 1)]
                 ELSE m,
                 <<>>)

\* ComposerModel::delete
delete(m) ==
    replace_text(IF m.start = m.end
                 THEN [m EXCEPT !.end = Location_add(m.end, 1)]
                 ELSE m,
                 <<>>)

\* An enter that types a line feed.
enter_as_newline(m) == replace_text(m, <<10>>)

\* ComposerModel::enter
enter(m) == [m |-> m, update |-> Keep, ok |-> TRUE]

\* An action_response that acts on the response it is given.
action_response_applying(m, action_id, response) ==
    IF response = "response1" THEN replace_text(m, <<>>)
    ELSE [m |-> m, update |-> Keep, ok |-> TRUE]

\* ComposerModel::action_response: both arguments are dropped.
action_response(m, action_id, response) ==
    [m |-> m, update |-> Keep, ok |-> TRUE]

\* ComposerModel::bold: the selection is computed (which fills the cache),
\* the first child of the document is looked at, and the wrapping itself is
\* commented out; the update is a ReplaceAll of the text as it is.
bold(m) ==
    LET sel == safe_selection(m)
    IN create_update_replace_all(sel.m)

\* The accessors dump_state calls; they take &self.
get_selection(m) == <<m.start, m.end>>
get_html(m) == encode_utf16(to_string(m.dom))

\* What dump_state hands to the host.
ComposerState(t, s, e) == [kind |-> "State", html |-> t, start |-> s, end |-> e]

\* ffi ComposerModel::dump_state, on the model behind the lock.
dump_state(m) ==
    LET sel == get_selection(m)
    IN [m |-> m, update |-> ComposerState(get_html(m), sel[1], sel[2]),
        ok |-> TRUE]

\* ComposerModel::replace_text_in: the splice of replace_text over the given
\* bounds, each clamped to the length of the text.
replace_text_in(m, new_text, s0, e0) ==
    LET h == html(m)
        s == clamp(s0, 0, Len(h.ret))
        e == clamp(e0, 0, Len(h.ret))
        new_html == splice(h.ret, s, e, new_text)
        p == parse_utf16(new_html)
    IN IF ~p.ok
       THEN [m |-> h.m, update |-> NoUpdate, ok |-> FALSE]
       ELSE create_update_replace_all(
                [h.m EXCEPT !.dom = p.dom,
                            !.start = s + Len(new_text),
                            !.end = s + Len(new_text)])

(***************************************************************************)
(* The test helpers cm and tx: a model from, and to, a text in which "|"   *)
(* marks the caret and "{" "}" the selection.                              *)
(***************************************************************************)

Bar == 124
OpenBrace == 123
CloseBrace == 125

\* find: the index (from 0) of the first code unit equal to needle.
find(haystack, needle) ==
    LET hits == {i \in 1..Len(haystack) : haystack[i] = needle}
    IN IF hits = {} THEN None
       ELSE Some((CHOOSE i \in hits : \A j \in hits : i <= j) - 1)

\* text[a..b] of a code-unit vector.
Slice(v, a, b) == SubSeq(v, a + 1, b)

CmPanic == [ok |-> FALSE, m |-> from(<<>>, 0, 0)]

\* cm: panics without a "|", or when the "|" is not next to the braces.
cm(str) ==
    LET text == encode_utf16(str)
        n == Len(text)
        curs == find(text, Bar)
        s == find(text, OpenBrace)
        e == find(text, CloseBrace)
    IN IF ~curs.some THEN CmPanic
       ELSE IF s.some /\ e.some
       THEN IF curs.value = e.value + 1
            THEN IF s.value + 1 > e.value THEN CmPanic
                 ELSE [ok |-> TRUE,
                       m |-> from(Slice(text, 0, s.value)
                                    \o Slice(text, s.value + 1, e.value)
                                    \o Slice(text, curs.value + 1, n),
                                  s.value, e.value - 1)]
            ELSE IF s.value >= 1 /\ curs.value = s.value - 1
            THEN IF s.value + 1 > e.value THEN CmPanic
                 ELSE [ok |-> TRUE,
                       m |-> from(Slice(text, 0, curs.value)
                                    \o Slice(text, s.value + 1, e.value)
                                    \o Slice(text, e.value + 1, n),
                                  e.value - 2, curs.value)]
            ELSE CmPanic
       ELSE [ok |-> TRUE,
             m |-> from(Slice(text, 0, curs.value)
                          \o Slice(text, curs.value + 1, n),
                        curs.value, curs.value)]

\* tx: every slice goes through String::from_utf16(..).unwrap(), and the
\* caret slice html[..start] is not clamped.
tx(m) ==
    LET h == html(m)
        t == h.ret
    IN IF m.start = m.end
       THEN IF m.start > Len(t)
            THEN [ok |-> FALSE, ret |-> <<>>, m |-> h.m]
            ELSE LET a == from_utf16(Slice(t, 0, m.start))
                     b == from_utf16(Slice(t, m.start, Len(t)))
                 IN [ok |-> a.ok /\ b.ok,
                     ret |-> a.value \o <<Bar>> \o b.value, m |-> h.m]
       ELSE LET sel == safe_selection(h.m)
                a == from_utf16(Slice(t, 0, sel.s))
                b == from_utf16(Slice(t, sel.s, sel.e))
                c == from_utf16(Slice(t, sel.e, Len(t)))
            IN [ok |-> a.ok /\ b.ok /\ c.ok,
                ret |-> IF m.start < m.end
                        THEN a.value \o <<OpenBrace>> \o b.value
                               \o <<CloseBrace, Bar>> \o c.value
                        ELSE a.value \o <<Bar, OpenBrace>> \o b.value
                               \o <<CloseBrace>> \o c.value,
                m |-> sel.m]

(***************************************************************************)
(* The edit engine as a state machine: one action per command              *)
(***************************************************************************)

\* The texts a caller types or pastes.
NewTexts == {<<>>, <<98>>, encode_utf16(<<128169>>)}

\* The text html() returns in this state, and the text of the tree.
HtmlOf(m) == html(m).ret
TreeText(m) == encode_utf16(to_string(m.dom))

History(op, new_text, a, b, pre, r) ==
    [op |-> op, new_text |-> new_text, a |-> a, b |-> b, arg |-> <<>>,
     pre |-> pre, ok |-> r.ok, update |-> r.update]

Install(m) ==
    /\ dom' = m.dom
    /\ rendered' = m.rendered
    /\ start' = m.start
    /\ end' = m.end

\* The ffi wrapper at rest around the model m: lock free, every thread idle.
\* The edit engine on its own (Spec) never touches it.
Threads == 1..NumThreads
NoCall == [op |-> "none", new_text |-> <<>>, a |-> 0, b |-> 0]
NoFrame == [s |-> 0, e |-> 0]
NoResult == [ok |-> TRUE, update |-> NoUpdate]
FfiIdle(m) ==
    /\ locked = FALSE
    /\ poisoned = FALSE
    /\ pc = [t \in Threads |-> "idle"]
    /\ call = [t \in Threads |-> NoCall]
    /\ frame = [t \in Threads |-> NoFrame]
    /\ ret = [t \in Threads |-> NoResult]
    /\ lin = m
    /\ linRet = [t \in Threads |-> NoResult]


\* A Sink nobody is driving.  The edit engine and the ffi wrapper reach the
\* Sink only through parse_utf16, inside a command.
NoOutput == [dom |-> <<>>, forgotten |-> {}, dropped |-> {}, owned |-> <<>>]
SinkHistory(op, a, b, text, pre) ==
    [op |-> op, a |-> a, b |-> b, text |-> text, pre |-> pre, out |-> NoOutput]
SinkIdle ==
    /\ curSink = Sink_default
    /\ sinkLast = SinkHistory("default", 0, 0, <<>>, Sink_default)
    /\ reported = <<>>

Init ==
    \E t \in Strings(MaxLen), s \in 0..MaxLoc, e \in 0..MaxLoc :
        LET m == from(encode_utf16(t), s, e) IN
        /\ dom = m.dom
        /\ rendered = m.rendered
        /\ start = m.start
        /\ end = m.end
        /\ last = History("from", encode_utf16(t), s, e, m, NoResult)
        /\ FfiIdle(from(<<>>, 0, 0))
        /\ SinkIdle

Select ==
    \E s \in 0..MaxLoc, e \in 0..MaxLoc :
        /\ last.ok
        /\ Install(select(Model, s, e))
        /\ last' = History("select", <<>>, s, e, Model,
                           [ok |-> TRUE, update |-> NoUpdate])

ReplaceText ==
    \E new_text \in NewTexts :
        LET r == replace_text(Model, new_text) IN
        /\ last.ok
        /\ Install(r.m)
        /\ last' = History("replace_text", new_text, 0, 0, Model, r)

Backspace ==
    LET r == backspace(Model) IN
    /\ last.ok
    /\ Install(r.m)
    /\ last' = History("backspace", <<>>, 0, 0, Model, r)

Delete ==
    LET r == delete(Model) IN
    /\ last.ok
    /\ Install(r.m)
    /\ last' = History("delete", <<>>, 0, 0, Model, r)

\* The ids and responses a host answers an action with.
ActionIds == {"action1", "action2"}
ActionResponses == {"response1", "response2"}

\* The texts and bounds of an out-of-band edit.
InTexts == {<<98>>}

ReplaceTextIn ==
    \E new_text \in InTexts, s \in 0..MaxIn, e \in 0..MaxIn :
        LET r == replace_text_in(Model, new_text, s, e) IN
        /\ last.ok
        /\ Install(r.m)
        /\ last' = History("replace_text_in", new_text, s, e, Model, r)

EnterKey ==
    LET r == enter(Model) IN
    /\ last.ok
    /\ Install(r.m)
    /\ last' = History("enter", <<>>, 0, 0, Model, r)

ActionResponse ==
    \E id \in ActionIds, response \in ActionResponses :
        LET r == action_response(Model, id, response) IN
        /\ last.ok
        /\ Install(r.m)
        /\ last' = [History("action_response", <<>>, 0, 0, Model, r)
                       EXCEPT !.arg = <<id, response>>]

Bold ==
    LET r == bold(Model) IN
    /\ last.ok
    /\ Install(r.m)
    /\ last' = History("bold", <<>>, 0, 0, Model, r)

DumpState ==
    LET r == dump_state(Model) IN
    /\ last.ok
    /\ Install(r.m)
    /\ last' = History("dump_state", <<>>, 0, 0, Model, r)

Next ==
    /\ \/ Select
       \/ ReplaceText
       \/ ReplaceTextIn
       \/ Backspace
       \/ Delete
       \/ EnterKey
       \/ ActionResponse
       \/ Bold
       \/ DumpState
    /\ UNCHANGED <<ffiVars, sinkVars>>

Spec == Init /\ [][Next]_vars

\* Formatting a text that has a block element in it: "a<p>a</p>" and
\* "<p>a</p>a", with every selection within the text.
p_name == <<112>>
Paragraph(content) == <<60>> \o p_name \o <<62>> \o content
                        \o <<60, 47>> \o p_name \o <<62>>
StructuredTexts == {<<97>> \o Paragraph(<<97>>), Paragraph(<<97>>) \o <<97>>}

InitStructured ==
    \E t \in StructuredTexts :
        \E s \in 0..Len(encode_utf16(t)), e \in 0..Len(encode_utf16(t)) :
            LET m == from(encode_utf16(t), s, e) IN
            /\ dom = m.dom
            /\ rendered = m.rendered
            /\ start = m.start
            /\ end = m.end
            /\ last = History("from", encode_utf16(t), s, e, m, NoResult)
            /\ FfiIdle(from(<<>>, 0, 0))
            /\ SinkIdle

NextStructured ==
    /\ Select \/ Bold \/ DumpState
    /\ UNCHANGED <<ffiVars, sinkVars>>

SpecStructured == InitStructured /\ [][NextStructured]_vars

(***************************************************************************)
(* ffi_composer_model.rs: host threads calling one shared model.  Each     *)
(* command is  self.inner.lock().unwrap().<command>(..) ;  the statements  *)
(* of the command are separate steps, so that what the lock does is there  *)
(* to be seen.                                                             *)
(***************************************************************************)

\* The commands a host thread may call, with their marshalled arguments.
Calls ==
    {[op |-> "select", new_text |-> <<>>, a |-> a, b |-> b] :
        a \in 0..MaxLoc, b \in 0..MaxLoc}
    \cup {[op |-> "replace_text", new_text |-> x, a |-> 0, b |-> 0] :
        x \in NewTexts}
    \cup {[op |-> "backspace", new_text |-> <<>>, a |-> 0, b |-> 0],
          [op |-> "delete", new_text |-> <<>>, a |-> 0, b |-> 0]}

\* The first statement of each command.
Entry(c) ==
    CASE c.op = "select" -> "select_start"
      [] c.op = "replace_text" -> "rt_selection"
      [] c.op = "backspace" -> "bs_adjust"
      [] c.op = "delete" -> "del_adjust"

\* A whole command applied to the model m at once.
Apply(m, c) ==
    CASE c.op = "select" ->
            [m |-> select(m, c.a, c.b), update |-> NoUpdate, ok |-> TRUE]
      [] c.op = "replace_text" -> replace_text(m, c.new_text)
      [] c.op = "backspace" -> backspace(m)
      [] c.op = "delete" -> delete(m)

\* A Mutex that lets a thread in while another holds it.
Mutex_lock_shared(t) == pc[t] = "idle"

\* Mutex::lock: the caller gets the guard once no other thread holds it.
Mutex_lock(t) == pc[t] = "idle" /\ ~locked

Result(r) == [ok |-> r.ok, update |-> r.update]
Panicked == [ok |-> FALSE, update |-> NoUpdate]

\* The guard is dropped and the command returns r to the host thread t.
Return(t, r) ==
    /\ locked' = FALSE
    /\ pc' = [pc EXCEPT ![t] = "idle"]
    /\ ret' = [ret EXCEPT ![t] = r]
    /\ call' = [call EXCEPT ![t] = NoCall]
    /\ frame' = [frame EXCEPT ![t] = NoFrame]
    /\ poisoned' = (poisoned \/ ~r.ok)

\* inner.lock().unwrap(): take the lock; unwrap panics on a poisoned one.
Enter(t) ==
    \E c \in Calls :
        /\ Mutex_lock(t)
        /\ IF poisoned
           THEN /\ ret' = [ret EXCEPT ![t] = Panicked]
                /\ linRet' = [linRet EXCEPT ![t] = Panicked]
                /\ UNCHANGED <<locked, pc, call, lin>>
           ELSE /\ locked' = TRUE
                /\ call' = [call EXCEPT ![t] = c]
                /\ pc' = [pc EXCEPT ![t] = Entry(c)]
                /\ lin' = Apply(lin, c).m
                /\ linRet' = [linRet EXCEPT ![t] = Result(Apply(lin, c))]
                /\ UNCHANGED ret
        /\ UNCHANGED <<coreVars, last, poisoned, frame>>

\* select: self.start = start;
SelectStart(t) ==
    /\ pc[t] = "select_start"
    /\ start' = call[t].a
    /\ pc' = [pc EXCEPT ![t] = "select_end"]
    /\ UNCHANGED <<dom, rendered, end, last, locked, poisoned, call, frame,
                   ret, lin, linRet>>

\* select: self.end = end;  and return.
SelectEnd(t) ==
    /\ pc[t] = "select_end"
    /\ end' = call[t].b
    /\ Return(t, NoResult)
    /\ UNCHANGED <<dom, rendered, start, last, lin, linRet>>

\* backspace: if self.start == self.end { self.start -= 1 }
BackspaceAdjust(t) ==
    /\ pc[t] = "bs_adjust"
    /\ start' = IF start = end THEN Location_sub(start, 1) ELSE start
    /\ pc' = [pc EXCEPT ![t] = "rt_selection"]
    /\ UNCHANGED <<dom, rendered, end, last, locked, poisoned, call, frame,
                   ret, lin, linRet>>

\* delete: if self.start == self.end { self.end += 1 }
DeleteAdjust(t) ==
    /\ pc[t] = "del_adjust"
    /\ end' = IF start = end THEN Location_add(end, 1) ELSE end
    /\ pc' = [pc EXCEPT ![t] = "rt_selection"]
    /\ UNCHANGED <<dom, rendered, start, last, locked, poisoned, call, frame,
                   ret, lin, linRet>>

\* replace_text: let (s, e) = self.safe_selection();
ReplaceTextSelection(t) ==
    LET r == safe_selection(Model) IN
    /\ pc[t] = "rt_selection"
    /\ Install(r.m)
    /\ frame' = [frame EXCEPT ![t] = [s |-> r.s, e |-> r.e]]
    /\ pc' = [pc EXCEPT ![t] = "rt_parse"]
    /\ UNCHANGED <<last, locked, poisoned, call, ret, lin, linRet>>

\* replace_text: splice self.html() and  self.dom = parse_utf16(new_html);
ReplaceTextParse(t) ==
    LET h == html(Model)
        new_html == splice(h.ret, frame[t].s, frame[t].e, call[t].new_text)
        p == parse_utf16(new_html)
    IN
    /\ pc[t] = "rt_parse"
    /\ IF p.ok
       THEN /\ Install([h.m EXCEPT !.dom = p.dom])
            /\ pc' = [pc EXCEPT ![t] = "rt_caret"]
            /\ UNCHANGED <<locked, poisoned, call, frame, ret>>
       ELSE /\ Install(h.m)
            /\ Return(t, Panicked)
    /\ UNCHANGED <<last, lin, linRet>>

\* replace_text: self.start = s + new_text.len(); self.end = self.start;
ReplaceTextCaret(t) ==
    /\ pc[t] = "rt_caret"
    /\ start' = frame[t].s + Len(call[t].new_text)
    /\ end' = frame[t].s + Len(call[t].new_text)
    /\ pc' = [pc EXCEPT ![t] = "rt_update"]
    /\ UNCHANGED <<dom, rendered, last, locked, poisoned, call, frame, ret,
                   lin, linRet>>

\* replace_text: self.create_update_replace_all()  and return.
ReplaceTextUpdate(t) ==
    LET r == create_update_replace_all(Model) IN
    /\ pc[t] = "rt_update"
    /\ Install(r.m)
    /\ Return(t, Result(r))
    /\ UNCHANGED <<last, lin, linRet>>

\* ffi ComposerModel::new
InitFfi ==
    LET m == from(<<>>, 0, 0) IN
    /\ dom = m.dom
    /\ rendered = m.rendered
    /\ start = m.start
    /\ end = m.end
    /\ last = History("from", <<>>, 0, 0, m, NoResult)
    /\ FfiIdle(m)
    /\ SinkIdle

NextFfi ==
    /\ \E t \in Threads :
        \/ Enter(t)
        \/ SelectStart(t)
        \/ SelectEnd(t)
        \/ BackspaceAdjust(t)
        \/ DeleteAdjust(t)
        \/ ReplaceTextSelection(t)
        \/ ReplaceTextParse(t)
        \/ ReplaceTextCaret(t)
        \/ ReplaceTextUpdate(t)
    /\ UNCHANGED sinkVars

SpecFfi == InitFfi /\ [][NextFfi]_vars

(***************************************************************************)
(* owned_dom.rs: the tree builder calling the Sink.  One action per        *)
(* callback; the handles it passes are the ones it can hold: the document  *)
(* and the nodes it created (Text nodes are made inside the Sink and never *)
(* handed out).  It never asks for a cycle.                                *)
(***************************************************************************)

ElementNames == {p_name}
SinkTexts == {<<97>>}

Handles == 1..Len(curSink.nodes)
Held == {h \in Handles : curSink.nodes[h].node.kind # "Text"}
Containers ==
    {h \in Handles : curSink.nodes[h].node.kind \in {"Document", "Element"}}

\* No callback has panicked and finish has not consumed the Sink.
Running == ~curSink.panicked /\ sinkLast.op # "finish"

CreateElement ==
    \E name \in ElementNames :
        /\ Running
        /\ Len(curSink.nodes) < MaxNodes
        /\ curSink' = create_element(curSink, name)
        /\ sinkLast' = SinkHistory("create_element", 0, 0, name, curSink)

AppendNode ==
    \E parent \in Containers, child \in Held \ {curSink.document} :
        /\ Running
        /\ parent \notin walk(curSink, child)
        /\ curSink' = Sink_append_node(curSink, parent, child)
        /\ sinkLast' = SinkHistory("append", parent, child, <<>>, curSink)

\* A Text node grows by coalescing up to MaxText code units.
TextFits(h, text) ==
    /\ curSink.nodes[h].node.kind = "Text"
    /\ Len(curSink.nodes[h].node.text) + Len(text) <= MaxText

AppendText ==
    \E parent \in Containers, text \in SinkTexts :
        LET ch == curSink.nodes[parent].children IN
        /\ Running
        /\ IF ch # <<>> /\ append_to_existing_text_ok(curSink, ch[Len(ch)])
           THEN TextFits(ch[Len(ch)], text)
           ELSE Len(curSink.nodes) < MaxNodes
        /\ curSink' = Sink_append_text(curSink, parent, text)
        /\ sinkLast' = SinkHistory("append_text", parent, 0, text, curSink)

AppendBeforeSibling ==
    \E sibling \in Held \ {curSink.document}, child \in Held \ {curSink.document} :
        /\ Running
        /\ sibling \notin walk(curSink, child)
        /\ curSink.nodes[sibling].parent \notin walk(curSink, child)
        /\ curSink' = Sink_append_before_sibling_node(curSink, sibling, child)
        /\ sinkLast' =
               SinkHistory("append_before_sibling", sibling, child, <<>>, curSink)

AppendTextBeforeSibling ==
    \E sibling \in Held \ {curSink.document}, text \in SinkTexts :
        LET pi == get_parent_and_index(curSink, sibling) IN
        /\ Running
        /\ IF pi.some /\ pi.i > 0
              /\ append_to_existing_text_ok(
                     curSink, curSink.nodes[pi.parent].children[pi.i])
           THEN TextFits(curSink.nodes[pi.parent].children[pi.i], text)
           ELSE Len(curSink.nodes) < MaxNodes
        /\ curSink' = Sink_append_before_sibling_text(curSink, sibling, text)
        /\ sinkLast' =
               SinkHistory("append_text_before_sibling", sibling, 0, text, curSink)

RemoveFromParent ==
    \E target \in Held :
        /\ Running
        /\ curSink' = remove_from_parent(curSink, target)
        /\ sinkLast' = SinkHistory("remove_from_parent", target, 0, <<>>, curSink)

ReparentChildren ==
    \E node \in Containers, new_parent \in Containers :
        /\ Running
        /\ node # new_parent
        /\ new_parent \notin walk(curSink, node)
        /\ curSink' = reparent_children(curSink, node, new_parent)
        /\ sinkLast' =
               SinkHistory("reparent_children", node, new_parent, <<>>, curSink)

\* The messages of the tree builder.
ErrorMessages == {"Unexpected token", "Unexpected end of file"}

\* The tree builder reports a parse error (at most MaxErrors of them).
ParseError ==
    \E msg \in ErrorMessages :
        /\ Running
        /\ Len(curSink.errors) < MaxErrors
        /\ curSink' = parse_error(curSink, msg)
        /\ sinkLast' = SinkHistory("parse_error", 0, 0, <<msg>>, curSink)
        /\ reported' = Append(reported, msg)

Finish ==
    LET mem == finish_memory(curSink) IN
    /\ Running
    /\ curSink' = curSink
    /\ sinkLast' = [SinkHistory("finish", 0, 0, <<>>, curSink) EXCEPT
                       !.out = [dom |-> finish(curSink),
                                forgotten |-> mem.forgotten,
                                dropped |-> mem.dropped,
                                owned |-> mem.owned]]

\* Sink::default, with the edit engine and the ffi wrapper at rest.
InitSink ==
    LET m == from(<<>>, 0, 0) IN
    /\ dom = m.dom
    /\ rendered = m.rendered
    /\ start = m.start
    /\ end = m.end
    /\ last = History("from", <<>>, 0, 0, m, NoResult)
    /\ FfiIdle(m)
    /\ SinkIdle

NextSink ==
    /\ \/ /\ \/ CreateElement
             \/ AppendNode
             \/ AppendText
             \/ AppendBeforeSibling
             \/ AppendTextBeforeSibling
             \/ RemoveFromParent
             \/ ReparentChildren
             \/ Finish
          /\ UNCHANGED reported
       \/ ParseError
    /\ UNCHANGED <<coreVars, last, ffiVars>>

SpecSink == InitSink /\ [][NextSink]_vars

(***************************************************************************)
(* The serializer on trees with every kind of node                         *)
(***************************************************************************)

\* What the tree builder is about to build below a node: character data
\* (a letter, or a "<" that came out of a character reference), comments,
\* and elements with an outline of their own.
DisplayTexts == {<<97>>, <<60>>}
DisplayNames == {p_name, html_name, head_name, body_name}
OutlineLeaves ==
    {[kind |-> "Text", name |-> <<>>, text |-> t, children |-> <<>>] :
        t \in DisplayTexts}
    \cup {[kind |-> "Comment", name |-> <<>>, text |-> <<97>>,
           children |-> <<>>]}

\* The outlines of n nodes: one tree (OutlineTrees), a forest (Outlines).
RECURSIVE OutlineTrees(_)
RECURSIVE Outlines(_)
OutlineTrees(n) ==
    (IF n = 1 THEN OutlineLeaves ELSE {})
    \cup {[kind |-> "Element", name |-> nm, text |-> <<>>, children |-> f] :
            nm \in DisplayNames, f \in Outlines(n - 1)}

Outlines(n) ==
    IF n = 0 THEN {<<>>}
    ELSE UNION {{<<t>> \o f : t \in OutlineTrees(k), f \in Outlines(n - k)} :
                  k \in 1..n}

\* The callbacks of the tree builder for an outline, in document order:
\* AppendText for character data, create_comment / create_element followed
\* by append for the rest, the children of an element after the element.
RECURSIVE build(_, _, _)
build(sink, parent, outline) ==
    IF outline = <<>> THEN sink
    ELSE LET o == Head(outline) IN
         IF o.kind = "Text"
         THEN build(Sink_append_text(sink, parent, o.text), parent,
                    Tail(outline))
         ELSE LET s1 == IF o.kind = "Comment"
                        THEN create_comment(sink, o.text)
                        ELSE create_element(sink, o.name)
                  s2 == Sink_append_node(s1, parent, LastHandle(s1))
                  s3 == build(s2, LastHandle(s1), o.children)
              IN build(s3, parent, Tail(outline))

\* A model whose tree was built from an outline, with or without a doctype
\* in front; nothing has been serialized yet.
InitDisplay ==
    \E n \in 0..MaxOutline, doctype \in BOOLEAN :
        \E outline \in Outlines(n) :
            LET s0 == IF doctype
                      THEN append_doctype_to_document(Sink_default, html_name)
                      ELSE Sink_default
                m == [dom |-> finish(build(s0, s0.document, outline)),
                      rendered |-> None, start |-> 0, end |-> 0]
            IN /\ dom = m.dom
               /\ rendered = m.rendered
               /\ start = m.start
               /\ end = m.end
               /\ last = History("from", <<>>, 0, 0, m, NoResult)
               /\ FfiIdle(from(<<>>, 0, 0))
               /\ SinkIdle

\* bold() serializes through html(), dump_state() through get_html().
NextDisplay ==
    /\ Bold \/ DumpState
    /\ UNCHANGED <<ffiVars, sinkVars>>

SpecDisplay == InitDisplay /\ [][NextDisplay]_vars

(***************************************************************************)
(* Claims about the edit engine                                            *)
(***************************************************************************)

\* What the claims call "the model's serialized text": what html() returns.
TextNow == HtmlOf(Model)
TextBefore == HtmlOf(last.pre)

ClampTo(x, L) == IF x > L THEN L ELSE x
MinOf(a, b) == IF a < b THEN a ELSE b
MaxOf(a, b) == IF a < b THEN b ELSE a
\* low and high of the stored selection of the model before the command.
LowBefore ==
    MinOf(ClampTo(last.pre.start, Len(TextBefore)),
          ClampTo(last.pre.end, Len(TextBefore)))
HighBefore ==
    MaxOf(ClampTo(last.pre.start, Len(TextBefore)),
          ClampTo(last.pre.end, Len(TextBefore)))

\* t without the code units at offsets [lo, hi).
Without(t, lo, hi) == SubSeq(t, 1, lo) \o SubSeq(t, hi + 1, Len(t))

\* C1: replace_text(X) makes the serialized text T[0..low) ++ X ++ T[high..L),
\* sets start = end = low + len(X), and returns ReplaceAll with exactly that
\* text and caret.
C1_ReplaceTextSplices ==
    (last.op = "replace_text" /\ last.ok) =>
        LET X == last.new_text
            expected == SubSeq(TextBefore, 1, LowBefore) \o X
                        \o SubSeq(TextBefore, HighBefore + 1, Len(TextBefore))
            caret == LowBefore + Len(X)
        IN /\ TextNow = expected
           /\ start = caret
           /\ end = caret
           /\ last.update = ReplaceAll(expected, caret, caret)

\* C2: in every reachable state the serialized text the model uses is the
\* serialization of the current tree.
C2_TextIsSerializationOfTree == TextNow = TreeText(Model)

\* C3: replace_text, backspace and delete complete normally for every stored
\* selection and every text, surrogate pairs included.
C3_EditsNeverFail ==
    last.op \in {"replace_text", "backspace", "delete"} => last.ok

\* The spec's other normalization: order the pair, then clamp both ends.
OrderThenClamp(s, e, L) ==
    <<ClampTo(MinOf(s, e), L), ClampTo(MaxOf(s, e), L)>>

\* C4: safe_selection gives the same pair as ordering and then clamping to
\* [0, L], and the pair satisfies 0 <= low <= high <= L.
C4_NormalizationOrderIndependent ==
    LET L == Len(TextNow)
        r == safe_selection(Model)
    IN /\ <<r.s, r.e>> = OrderThenClamp(start, end, L)
       /\ 0 <= r.s /\ r.s <= r.e /\ r.e <= L

\* A command has normalized an inverted selection that lay beyond the text.
C4_Witness ==
    /\ last.op = "replace_text" /\ last.ok
    /\ last.pre.start > last.pre.end
    /\ last.pre.start > Len(TextBefore)
    /\ last.pre.end < Len(TextBefore)
    /\ start = safe_selection(last.pre).s + Len(last.new_text)

\* C5: backspace with a collapsed caret at N > 0 removes exactly the code
\* unit before N and leaves the caret at N-1; at N = 0 it changes nothing.
C5_BackspaceCollapsed ==
    (/\ last.op = "backspace" /\ last.ok
     /\ last.pre.start = last.pre.end
     /\ last.pre.start <= Len(TextBefore)) =>
        LET N == last.pre.start IN
        IF N > 0
        THEN TextNow = Without(TextBefore, N - 1, N) /\ start = N - 1 /\ end = N - 1
        ELSE TextNow = TextBefore /\ start = 0 /\ end = 0

\* C6: delete with a collapsed caret at N < length removes exactly the code
\* unit at N and leaves the caret at N; at N = length it changes nothing.
C6_DeleteCollapsed ==
    (/\ last.op = "delete" /\ last.ok
     /\ last.pre.start = last.pre.end
     /\ last.pre.start <= Len(TextBefore)) =>
        LET N == last.pre.start IN
        IF N < Len(TextBefore)
        THEN TextNow = Without(TextBefore, N, N + 1) /\ start = N /\ end = N
        ELSE TextNow = TextBefore /\ start = N /\ end = N

\* C7: with a non-collapsed selection, in either order, backspace and delete
\* remove exactly [low, high) and leave a collapsed caret at low.
C7_SelectionRemoved ==
    (/\ last.op \in {"backspace", "delete"} /\ last.ok
     /\ last.pre.start # last.pre.end
     /\ last.pre.start <= Len(TextBefore)
     /\ last.pre.end <= Len(TextBefore)) =>
        /\ TextNow = Without(TextBefore, LowBefore, HighBefore)
        /\ start = LowBefore
        /\ end = LowBefore

\* A surrogate pair occupies [k, k+2) of t.
PairAt(t, k) ==
    k + 2 <= Len(t) /\ IsHighSurrogate(t[k + 1]) /\ IsLowSurrogate(t[k + 2])

\* C8: for a surrogate pair at [k, k+2), backspace from a caret at k+2 and
\* delete from a caret at k each remove both units in one call, and neither
\* leaves a caret at k+1.
C8_SurrogatePairAtomic ==
    \A k \in 0..MaxLen :
        /\ (/\ last.op = "backspace"
            /\ last.pre.start = k + 2 /\ last.pre.end = k + 2
            /\ PairAt(TextBefore, k)) =>
                /\ last.ok
                /\ TextNow = Without(TextBefore, k, k + 2)
                /\ start = k /\ end = k
        /\ (/\ last.op = "delete"
            /\ last.pre.start = k /\ last.pre.end = k
            /\ PairAt(TextBefore, k)) =>
                /\ last.ok
                /\ TextNow = Without(TextBefore, k, k + 2)
                /\ start = k /\ end = k

\* C9: select(start, end) stores the pair verbatim and leaves the tree and
\* the serialized text as they were.
C9_SelectVerbatim ==
    last.op = "select" =>
        /\ start = last.a
        /\ end = last.b
        /\ dom = last.pre.dom
        /\ rendered = last.pre.rendered
        /\ TextNow = TextBefore
        /\ TreeText(Model) = TreeText(last.pre)

\* select has stored an inverted pair whose anchor lies beyond the text, in
\* a model that has already cached its text.
C9_Witness ==
    /\ last.op = "select"
    /\ last.a > last.b
    /\ last.a > Len(TextNow)
    /\ start = last.a /\ end = last.b
    /\ rendered.some

\* C10: commands of several host threads run wholly under the one lock: at
\* most one thread is inside a command, and whenever no command is running
\* the model and every returned update are those of the commands executed
\* whole, one after another, in the order in which they took the lock.
C10_CommandsSerialized ==
    /\ Cardinality({t \in Threads : pc[t] # "idle"}) <= 1
    /\ (\A t \in Threads : pc[t] = "idle") => Model = lin
    /\ \A t \in Threads : pc[t] = "idle" => ret[t] = linRet[t]

\* One thread is between installing the new tree and setting the caret,
\* while another thread, which has already had a ReplaceAll returned, is
\* free to call.
C10_Witness ==
    \E t \in Threads, u \in Threads :
        /\ t # u
        /\ pc[t] = "rt_caret"
        /\ TreeText(Model) # <<>>
        /\ start # frame[t].s + Len(call[t].new_text)
        /\ pc[u] = "idle"
        /\ ret[u].update.kind = "ReplaceAll"

(***************************************************************************)
(* Claims about construction, snapshots and the remaining commands         *)
(***************************************************************************)

\* The text-plus-selection form of the text t16 with anchor a and focus f.
Repr16(t16, a, f) ==
    IF a = f
    THEN Slice(t16, 0, a) \o <<Bar>> \o Slice(t16, a, Len(t16))
    ELSE IF a < f
    THEN Slice(t16, 0, a) \o <<OpenBrace>> \o Slice(t16, a, f)
           \o <<CloseBrace, Bar>> \o Slice(t16, f, Len(t16))
    ELSE Slice(t16, 0, f) \o <<Bar, OpenBrace>> \o Slice(t16, f, a)
           \o <<CloseBrace>> \o Slice(t16, a, Len(t16))

\* The offset k does not fall inside a surrogate pair of t16.
OnCharBoundary(t16, k) == from_utf16(Slice(t16, 0, k)).ok

\* The model has just been constructed from a text and a selection that lies
\* within the text, on character boundaries.
Constructed ==
    /\ last.op = "from"
    /\ last.a <= Len(last.new_text)
    /\ last.b <= Len(last.new_text)
    /\ OnCharBoundary(last.new_text, last.a)
    /\ OnCharBoundary(last.new_text, last.b)

\* C11: a model constructed from a text plus a selection (collapsed, forward
\* or backward, within the text) reads back as the identical text and the
\* identical selection, direction included: cm of the text-plus-selection
\* form is this model, tx of it is that form again, and html(), start and
\* end are the text, the anchor and the focus it was constructed from.
C11_RoundTrip ==
    Constructed =>
        LET subject == from_utf16(Repr16(last.new_text, last.a, last.b)).value
            c == cm(subject)
            output == tx(c.m)
        IN /\ c.ok
           /\ c.m = Model
           /\ output.ok
           /\ output.ret = subject
           /\ HtmlOf(Model) = last.new_text
           /\ start = last.a
           /\ end = last.b

\* A backward selection over a surrogate pair has been constructed.
C11_Witness ==
    /\ Constructed
    /\ start = 2 /\ end = 0
    /\ last.new_text = encode_utf16(<<128169>>)
    /\ tx(Model).ret = <<Bar, OpenBrace, 128169, CloseBrace>>

\* Every command of the edit engine with its arguments, and its effect.
Commands ==
    Calls
    \cup {[op |-> "replace_text_in", new_text |-> x, a |-> a, b |-> b] :
            x \in InTexts, a \in 0..MaxIn, b \in 0..MaxIn}
    \cup {[op |-> o, new_text |-> <<>>, a |-> 0, b |-> 0] :
            o \in {"enter", "action_response", "bold", "dump_state"}}

Do(m, c) ==
    CASE c.op \in {"select", "replace_text", "backspace", "delete"} ->
            Apply(m, c)
      [] c.op = "replace_text_in" -> replace_text_in(m, c.new_text, c.a, c.b)
      [] c.op = "enter" -> enter(m)
      [] c.op = "action_response" -> action_response(m, "action1", "response1")
      [] c.op = "bold" -> bold(m)
      [] c.op = "dump_state" -> dump_state(m)

\* C12: a snapshot is read-only as the host observes it.  dump_state leaves
\* the tree, the cache and the selection as they were and a second one
\* returns the same; reading the text with html() twice gives the same text
\* and leaves the tree and the selection alone, and, where the read has
\* filled the cache, every later command returns the update, and leaves the
\* model, it would have without the read.
C12_SnapshotReadOnly ==
    last.op = "dump_state" =>
        LET h1 == html(Model)
            h2 == html(h1.m)
        IN /\ last.ok
           /\ Model = last.pre
           /\ dump_state(Model).update = last.update
           /\ h1.ret = h2.ret
           /\ h1.m.dom = dom /\ h1.m.start = start /\ h1.m.end = end
           /\ h2.m = h1.m
           /\ \/ h1.m = Model
              \/ \A c \in Commands :
                    LET with == Do(h1.m, c)
                        without == Do(Model, c)
                    IN /\ with.ok = without.ok
                       /\ with.update = without.update
                       /\ with.m \in {without.m, html(without.m).m}

\* A snapshot has been taken of a model whose cached text is no longer the
\* text of its tree, with an inverted selection.
C12_Witness ==
    /\ last.op = "dump_state"
    /\ rendered.some
    /\ rendered.value # TreeText(Model)
    /\ start > end

StrongOpen == <<60, 115, 116, 114, 111, 110, 103, 62>>
StrongClose == <<60, 47, 115, 116, 114, 111, 110, 103, 62>>

\* C13: bold() over a non-empty selection [low, high) inside one text run
\* makes the serialized text T[0..low) ++ "<strong>" ++ T[low..high) ++
\* "</strong>" ++ T[high..] and leaves the stored start and end as they were.
C13_BoldWraps ==
    (last.op = "bold" /\ LowBefore < HighBefore) =>
        /\ last.ok
        /\ TextNow = SubSeq(TextBefore, 1, LowBefore) \o StrongOpen
                       \o SubSeq(TextBefore, LowBefore + 1, HighBefore)
                       \o StrongClose
                       \o SubSeq(TextBefore, HighBefore + 1, Len(TextBefore))
        /\ start = last.pre.start
        /\ end = last.pre.end

\* Where the elements that are written out lie in the serialized text of a
\* tree: [os, oe) is the element with its tags, [cs, ce) its content.
RECURSIVE SpansOf(_, _)
RECURSIVE SpansOfChildren(_, _)
SpansOfChildren(children, off) ==
    IF children = <<>> THEN {}
    ELSE SpansOf(Head(children), off)
         \cup SpansOfChildren(Tail(children),
                              off + Len(encode_utf16(imp(Head(children)))))

SpansOf(parent, off) ==
    LET n == parent.node
    IN IF n.kind = "Element" /\ ~excluded_tag(n.name)
       THEN LET total == Len(encode_utf16(imp(parent)))
            IN {[os |-> off, cs |-> off + Len(n.name) + 2,
                 ce |-> off + total - (Len(n.name) + 3), oe |-> off + total]}
               \cup SpansOfChildren(parent.children, off + Len(n.name) + 2)
       ELSE SpansOfChildren(parent.children, off)

\* The selection [low, high) takes in content of an element and text outside
\* that element, without taking in the whole element.
Crossing(m, low, high) ==
    \E sp \in SpansOf(m.dom.document, 0) :
        /\ \E k \in low..(high - 1) : sp.cs <= k /\ k < sp.ce
        /\ \E k \in low..(high - 1) : k < sp.os \/ sp.oe <= k
        /\ ~(low <= sp.os /\ sp.oe <= high)

\* C14: when the selection crosses into or out of a structural element,
\* bold() returns Keep and leaves the tree, the text and the selection as
\* they were.
C14_BoldRefusesCrossing ==
    (last.op = "bold" /\ Crossing(last.pre, LowBefore, HighBefore)) =>
        /\ last.ok
        /\ last.update = Keep
        /\ dom = last.pre.dom
        /\ TextNow = TextBefore
        /\ start = last.pre.start
        /\ end = last.pre.end

\* C15: replace_text_in(X, start, end) with start <= end makes the
\* serialized text the splice of X over the given bounds, clamped to the
\* length of the text, whatever the stored selection is.
C15_ReplaceTextInSplices ==
    (last.op = "replace_text_in" /\ last.ok /\ last.a <= last.b) =>
        LET L == Len(TextBefore)
            expected == splice(TextBefore, ClampTo(last.a, L),
                               ClampTo(last.b, L), last.new_text)
        IN /\ TextNow = expected
           /\ \A a \in 0..MaxLoc, b \in 0..MaxLoc :
                HtmlOf(replace_text_in(select(last.pre, a, b), last.new_text,
                                       last.a, last.b).m) = expected

\* C16: enter() returns Keep and leaves the tree, the text and the selection
\* as they were.
C16_EnterKeeps ==
    last.op = "enter" =>
        /\ last.ok
        /\ last.update = Keep
        /\ Model = last.pre
        /\ TextNow = TextBefore
        /\ TreeText(Model) = TreeText(last.pre)

\* enter() has been called with a non-empty selection on a model that has
\* cached its text.
C16_Witness ==
    /\ last.op = "enter"
    /\ rendered.some
    /\ start # end
    /\ Len(TextNow) > 0

\* C17: action_response(id, response) returns Keep for every id and every
\* response, and leaves the tree, the text and the selection as they were.
C17_ActionResponseKeeps ==
    last.op = "action_response" =>
        /\ last.ok
        /\ last.update = Keep
        /\ Model = last.pre
        /\ TextNow = TextBefore
        /\ TreeText(Model) = TreeText(last.pre)

\* action_response has been called with the response a handling of it would
\* act on, on a model with a non-empty selection.
C17_Witness ==
    /\ last.op = "action_response"
    /\ last.arg = <<"action2", "response1">>
    /\ rendered.some
    /\ LowBefore < HighBefore

(***************************************************************************)
(* Claims about the construction arena                                     *)
(***************************************************************************)

ChildrenOf(s, h) == s.nodes[h].children
IsText(s, h) == s.nodes[h].node.kind = "Text"

\* C18: after any sequence of append, append_before_sibling,
\* remove_from_parent and reparent_children callbacks, no node has two
\* consecutive Text children.
C18_NoAdjacentText ==
    ~curSink.panicked =>
        \A h \in Handles :
            \A i \in 1..(Len(ChildrenOf(curSink, h)) - 1) :
                ~(/\ IsText(curSink, ChildrenOf(curSink, h)[i])
                  /\ IsText(curSink, ChildrenOf(curSink, h)[i + 1]))

\* The places, <<parent, index>>, at which h is a child.
Places(s, h) ==
    {pl \in (1..Len(s.nodes)) \X (1..Len(s.nodes)) :
        /\ pl[2] <= Len(ChildrenOf(s, pl[1]))
        /\ ChildrenOf(s, pl[1])[pl[2]] = h}

\* C19: after any sequence of callbacks no node is in the children lists of
\* two nodes or twice in one list, and a node that append or
\* append_before_sibling has attached is a child at exactly one place, under
\* the node its parent link names: had it a parent before, it was detached
\* from it first.
C19_OneParent ==
    ~curSink.panicked =>
        /\ \A h \in Handles : Cardinality(Places(curSink, h)) <= 1
        /\ sinkLast.op \in {"append", "append_before_sibling"} =>
               /\ Cardinality(Places(curSink, sinkLast.b)) = 1
               /\ \E pl \in Places(curSink, sinkLast.b) :
                      pl[1] = curSink.nodes[sinkLast.b].parent

\* append_before_sibling has moved a node that was a child of one node
\* to a place under another.
C19_Witness ==
    /\ ~curSink.panicked
    /\ sinkLast.op = "append_before_sibling"
    /\ sinkLast.pre.nodes[sinkLast.b].parent # NullHandle
    /\ sinkLast.pre.nodes[sinkLast.b].parent # curSink.nodes[sinkLast.b].parent
    /\ Places(sinkLast.pre, sinkLast.b) # {}

Range(v) == {v[i] : i \in 1..Len(v)}

\* The handles reached from the set S in at most n steps through children.
RECURSIVE ReachedFrom(_, _, _)
ReachedFrom(s, S, n) ==
    IF n = 0 THEN S
    ELSE ReachedFrom(s, S \cup UNION {Range(ChildrenOf(s, h)) : h \in S},
                     n - 1)

Reachable(s) == ReachedFrom(s, {s.document}, Len(s.nodes))

\* The number of nodes of an owned tree.
RECURSIVE CountNodes(_)
RECURSIVE CountNodesOf(_)
CountNodesOf(children) ==
    IF children = <<>> THEN 0
    ELSE CountNodes(Head(children)) + CountNodesOf(Tail(children))

CountNodes(n) == 1 + CountNodesOf(n.children)

\* C20: after finish() the finalized tree is made of exactly the arena nodes
\* reachable from the document, each once; every other node has been
\* dropped and no reachable node has.
C20_FinishKeepsReachable ==
    sinkLast.op = "finish" =>
        LET out == sinkLast.out
            reach == Reachable(sinkLast.pre)
        IN /\ Range(out.owned) = reach
           /\ Len(out.owned) = Cardinality(reach)
           /\ CountNodes(out.dom.document) = Cardinality(reach)
           /\ out.forgotten = reach
           /\ out.dropped = (1..Len(sinkLast.pre.nodes)) \ reach
           /\ out.dropped \cap Range(out.owned) = {}

\* finish() has run on an arena that holds a detached element with a child
\* of its own, next to a document that has a child.
C20_Witness ==
    /\ sinkLast.op = "finish"
    /\ \E h \in sinkLast.out.dropped :
           /\ ChildrenOf(sinkLast.pre, h) # <<>>
           /\ Range(ChildrenOf(sinkLast.pre, h)) \subseteq sinkLast.out.dropped
    /\ Cardinality(sinkLast.out.forgotten) >= 2

(***************************************************************************)
(* Claims C21..C29                                                         *)
(***************************************************************************)

\* The values the private parent fields of an owned tree hold.
RECURSIVE HeldParents(_)
RECURSIVE HeldParentsOf(_)
HeldParentsOf(children) ==
    IF children = <<>> THEN {}
    ELSE HeldParents(Head(children)) \cup HeldParentsOf(Tail(children))

HeldParents(n) == {n.parent_not_accessible} \cup HeldParentsOf(n.children)

\* C22: after finish() no finalized node holds a parent back-reference or
\* handle value that was assigned during construction: every node's
\* private parent field is null.
C22_NothingRetained ==
    sinkLast.op = "finish" =>
        HeldParents(sinkLast.out.dom.document) \subseteq {NullHandle}

\* C23: reparent_children(node, new_parent) moves all of node's children,
\* in their order, to the end of new_parent's children, leaves node without
\* children and sets the parent link of every moved child to new_parent.
C23_ReparentChildrenMoves ==
    sinkLast.op = "reparent_children" =>
        LET pre == sinkLast.pre
            node == sinkLast.a
            new_parent == sinkLast.b
            moved == ChildrenOf(pre, node)
        IN /\ ChildrenOf(curSink, new_parent) =
                  ChildrenOf(pre, new_parent) \o moved
           /\ ChildrenOf(curSink, node) = <<>>
           /\ \A i \in 1..Len(moved) :
                  curSink.nodes[moved[i]].parent = new_parent

\* A node's parent link is P exactly when the node is in P's children.
Consistent(s) ==
    \A h \in 1..Len(s.nodes) : \A P \in 1..Len(s.nodes) :
        (s.nodes[h].parent = P) <=> (h \in Range(ChildrenOf(s, P)))

\* The aborts the callers ask for: append of a node that has a parent, and
\* append_before_sibling before a sibling that has none.
RequestedAbort ==
    \/ /\ sinkLast.op = "append"
       /\ sinkLast.pre.nodes[sinkLast.b].parent # NullHandle
    \/ /\ sinkLast.op \in {"append_before_sibling",
                           "append_text_before_sibling"}
       /\ sinkLast.pre.nodes[sinkLast.a].parent = NullHandle

\* C24: as long as append is only given parentless nodes, parent links and
\* children lists agree, and no callback aborts in get_parent_and_index.
C24_LinksConsistent ==
    /\ ~curSink.panicked => Consistent(curSink)
    /\ curSink.panicked => RequestedAbort

\* C25: after append_before_sibling(sibling, node), on a consistent tree
\* and with a sibling that has a parent, node is the child immediately
\* before sibling in that parent's children, node's parent link is that
\* parent, and node is in no other place.
C25_InsertedBeforeSibling ==
    (/\ sinkLast.op = "append_before_sibling"
     /\ sinkLast.a # sinkLast.b
     /\ Consistent(sinkLast.pre)
     /\ sinkLast.pre.nodes[sinkLast.a].parent # NullHandle) =>
        LET sibling == sinkLast.a
            node == sinkLast.b
            parent == sinkLast.pre.nodes[sibling].parent
            ch == ChildrenOf(curSink, parent)
        IN /\ ~curSink.panicked
           /\ curSink.nodes[node].parent = parent
           /\ \E i \in 1..(Len(ch) - 1) : ch[i] = node /\ ch[i + 1] = sibling
           /\ Cardinality(Places(curSink, node)) = 1

\* The sequence v without the entries equal to x.
Removed(v, x) == SelectSeq(v, LAMBDA y : y # x)

\* C29: remove_from_parent(target) on a node with a parent removes exactly
\* that node from the parent's children, keeps the order of the others,
\* clears the node's parent link and touches nothing else; on a node
\* without a parent it changes nothing.
C29_RemoveFromParentFrame ==
    sinkLast.op = "remove_from_parent" =>
        LET pre == sinkLast.pre
            target == sinkLast.a
            parent == pre.nodes[target].parent
        IN IF parent = NullHandle
           THEN curSink = pre
           ELSE /\ Len(ChildrenOf(curSink, parent)) =
                       Len(ChildrenOf(pre, parent)) - 1
                /\ curSink =
                       [pre EXCEPT
                           !.nodes[parent].children = Removed(@, target),
                           !.nodes[target].parent = NullHandle]

\* C21: parse_error(msg) only appends msg to the error list and changes no
\* node, no other callback touches the list, and finish() returns the tree
\* together with exactly the messages reported, in the order of the reports.
C21_ErrorsAreDiagnostics ==
    /\ sinkLast.op = "parse_error" =>
           /\ curSink.errors = Append(sinkLast.pre.errors, sinkLast.text[1])
           /\ curSink = [sinkLast.pre EXCEPT !.errors = curSink.errors]
           /\ ~curSink.panicked
    /\ sinkLast.op \notin {"parse_error", "default"} =>
           curSink.errors = sinkLast.pre.errors
    /\ sinkLast.op = "finish" =>
           /\ sinkLast.out.dom.errors = reported
           /\ sinkLast.out.dom.document =
                  Owned(sinkLast.pre, sinkLast.pre.document)

\* finish() has run after two different errors were reported to a Sink
\* whose document has a child.
C21_Witness ==
    /\ sinkLast.op = "finish"
    /\ Len(reported) = MaxErrors
    /\ reported[1] # reported[2]
    /\ sinkLast.out.dom.errors = reported
    /\ sinkLast.out.dom.document.children # <<>>

\* C26: immediately after replace_text, backspace or delete the stored
\* selection is collapsed and lies within the serialized text after the
\* command, so the caret of the ReplaceAll is a valid offset into the text
\* reported with it.
C26_CaretWithinText ==
    (last.op \in {"replace_text", "backspace", "delete"} /\ last.ok) =>
        /\ start = end
        /\ start \in 0..Len(TextNow)
        /\ last.update.kind = "ReplaceAll"
        /\ last.update.start = start
        /\ last.update.end = end
        /\ last.update.start \in 0..Len(last.update.html)

\* C27: every ReplaceAll a command returns carries what a snapshot taken
\* right after the command returns: the same text, the same start and end.
C27_UpdateIsSnapshot ==
    (last.ok /\ last.update.kind = "ReplaceAll") =>
        LET snapshot == dump_state(Model).update
        IN /\ last.update.html = snapshot.html
           /\ last.update.start = snapshot.start
           /\ last.update.end = snapshot.end

\* The serialization as the claim states it.
RECURSIVE Serialization(_)
RECURSIVE SerializationOf(_)
SerializationOf(children) ==
    IF children = <<>> THEN <<>>
    ELSE Serialization(Head(children)) \o SerializationOf(Tail(children))

Serialization(n) ==
    CASE n.node.kind = "Text" ->
             n.node.text \o SerializationOf(n.children)
      [] /\ n.node.kind = "Element"
         /\ n.node.name \notin {html_name, head_name, body_name} ->
             <<60>> \o n.node.name \o <<62>>
             \o SerializationOf(n.children)
             \o <<60, 47>> \o n.node.name \o <<62>>
      [] OTHER -> SerializationOf(n.children)

\* The kinds of the nodes of an owned tree.
RECURSIVE KindsIn(_)
RECURSIVE KindsOf(_)
KindsOf(children) ==
    IF children = <<>> THEN {}
    ELSE KindsIn(Head(children)) \cup KindsOf(Tail(children))

KindsIn(n) == {n.node.kind} \cup KindsOf(n.children)

\* C28: the serialization of a finalized tree is the pre-order
\* concatenation of: the content of each Text node, verbatim; <name> and
\* </name> around the children of each Element other than html, head and
\* body; the children alone for html, head, body; nothing for Document,
\* Comment and Doctype nodes.  The text html() caches is its UTF-16 form.
C28_Serialization ==
    /\ to_string(dom) = Serialization(dom.document)
    /\ rendered.some =>
           rendered.value = encode_utf16(Serialization(dom.document))

\* html() has serialized a tree with a doctype, a comment and a paragraph
\* inside a body element to "<p></p>".
C28_Witness ==
    /\ rendered = Some(Paragraph(<<>>))
    /\ {"Doctype", "Comment", "Element"} \subseteq KindsIn(dom.document)
    /\ \E i \in 1..Len(dom.document.children) :
           /\ dom.document.children[i].node = Element(body_name)
           /\ dom.document.children[i].children # <<>>

=============================================================================
